---- MODULE Spec2Model ----
(***************************************************************************)
(* Model of the collector supervision in siso.py: the wrapper's path from  *)
(* _handle_collector_args through _start_collector (probe, reap, socket    *)
(* cleanup, spawn, polling loop) to check_outdir and caffeinate.call.      *)
(* Times are in milliseconds.                                              *)
(***************************************************************************)
EXTENDS Integers, Sequences, FiniteSets, TLC

VARIABLES
    pc,              \* position of the wrapper in main / _start_collector
    platform,        \* sys.platform of the invocation
    enable_collector,\* -enable_collector / --enable_collector given
    project,         \* result of _fetch_metrics_project ("" when none)
    ninja_marker,    \* out_dir/.ninja_deps exists
    help_request,    \* the arguments ask for help (-h, -help, --help)
    should_collect_logs, \* telemetry_cfg.enabled()
    sock_exists,     \* os.path.exists(sockets_file)
    sockets_file,    \* None or the socket path (a sequence of string pieces)
    now,             \* time.time()
    start,           \* start = time.time() of _start_collector
    status,          \* last value returned by collector_status()
    init_status,     \* value returned by the first collector_status()
    started,         \* return value of _start_collector
    outcome,         \* why _start_collector / the handler ended
    advertised,      \* endpoint argument appended for the build executor
    enable_false,    \* "--enable_collector=false" appended
    spawns,          \* calls of start_collector (subprocess.Popen)
    kills,           \* calls of _kill_collector
    reaped,          \* return value of _kill_collector
    polls,           \* calls of collector_status inside the while loop
    sleeps,          \* calls of time.sleep
    removes,         \* calls of os.remove(sockets_file)
    probe_at,        \* time at which the last collector_status() was started
    returned_at,     \* time at which _start_collector returned
    arg,             \* arguments of a function called on its own
    ret,             \* what that call returned
    files,           \* gerrit cache: the content of each cache file path
    git_config,      \* git config depot-tools.gerrit-cache-path ("" unset)
    cache_path,      \* self.cache_path of each GerritCache instance
    history,         \* per key, the last value passed to set() and
                     \* whether that call wrote the cache file
    ops,             \* number of get() / set() calls made so far
    listener,        \* whether the initial probe's connection was accepted
    procs,           \* concurrent processes: the local state of each
    lock,            \* the holder of the lock they share (0: free)
    collectors       \* the collector processes and the socket file they share

vars == <<pc, platform, enable_collector, project, ninja_marker, help_request,
          should_collect_logs, sock_exists, sockets_file, now, start, status,
          init_status, started, outcome, advertised, enable_false, spawns,
          kills, reaped, polls, sleeps, removes, probe_at, returned_at, arg,
          ret, files, git_config, cache_path, history, ops, listener, procs,
          lock, collectors>>

CacheVars == <<files, git_config, cache_path, history, ops>>

ConcVars == <<procs, lock, collectors>>

\* ---------------------------------------------------------------- bounds
\* longest time one collector_status() call is taken to block
MaxProbeMs == 120
\* longest time one _kill_collector() call is taken to run
MaxKillMs == 30
\* longest argument list handed to _handle_collector_args
MaxArgs == 3
\* polls one of two racing invocations makes before its deadline
MaxRacePolls == 2

\* ------------------------------------------------------ program constants
\* while time.time() - start < 1
DEADLINE_MS == 1000
\* time.sleep(0.05)
SLEEP_MS == 50
\* allowed_length = 104 - len(path) - 6
SOCK_PATH_MAX == 104
SOCK_RESERVED == 6
\* len("/tmp"), len("siso"), len(".sock")
TMP_LEN == 4
SISO_LEN == 4
SOCK_EXT_LEN == 5
\* _OTLP_DEFAULT_TCP_ENDPOINT
OTLP_DEFAULT_TCP_ENDPOINT == <<"127.0.0.1:4317">>

None == <<>>
UnixScheme == "unix://"
\* os.path.join(path, f"{project[:remainder_len]}.sock")
SocketPath == <<"/tmp/user/siso/proj.sock">>

Platforms == {"linux", "darwin", "win32"}
ProbeDurations == {0, MaxProbeMs}
\* a collector_status() call that lasts as long as the polling deadline: the
\* connection has no timeout
SlowProbeMs == DEADLINE_MS
\* the initial probe is followed for a slow answer too
InitialProbeDurations == ProbeDurations \cup {SlowProbeMs}
KillDurations == {0, MaxKillMs}

\* most get() / set() calls made on the gerrit cache in one run
MaxOps == 3

\* most lines of process-table output looked at in one reaper call
MaxRows == 3

\* longest user name, directory name and project id looked at
MaxUserLen == 95
MaxDirLen == 99
MaxProjectLen == 110

\* ------------------------------------------------------- the health probe
\* What the health port answers to one collector_status() call.
OkWorld(e) ==
    [reqErr |-> FALSE, recvErr |-> FALSE, code |-> 200, body |-> "json",
     healthy |-> TRUE, statusStr |-> "StatusOK", cfg |-> "ok", endpoint |-> e,
     hang |-> FALSE]

ReportedEndpoints ==
    {SocketPath, <<UnixScheme>> \o SocketPath, OTLP_DEFAULT_TCP_ENDPOINT,
     <<"0.0.0.0:4317">>}

HttpWorlds ==
    {OkWorld(e) : e \in ReportedEndpoints} \cup
    {[OkWorld(SocketPath) EXCEPT !.reqErr = TRUE],
     [OkWorld(SocketPath) EXCEPT !.recvErr = TRUE],
     [OkWorld(SocketPath) EXCEPT !.code = 404],
     [OkWorld(SocketPath) EXCEPT !.body = "malformed"],
     [OkWorld(SocketPath) EXCEPT !.healthy = FALSE],
     [OkWorld(SocketPath) EXCEPT !.statusStr = "NotOK"],
     [OkWorld(SocketPath) EXCEPT !.cfg = "malformed"],
     [OkWorld(SocketPath) EXCEPT !.cfg = "bad_shape"],
     [OkWorld(SocketPath) EXCEPT !.cfg = "missing_key"],
     [OkWorld(SocketPath) EXCEPT !.hang = TRUE]}

\* fetch_receiver_endpoint: the endpoint string, "" on KeyError; any other
\* error of json.loads or of the subscripting is not caught.
fetch_receiver_endpoint(w) ==
    IF w.cfg \in {"malformed", "bad_shape"}
    THEN [raised |-> TRUE, value |-> None]
    ELSE IF w.cfg = "missing_key"
    THEN [raised |-> FALSE, value |-> None]
    ELSE [raised |-> FALSE, value |-> w.endpoint]

\* collector_status: only a ConnectionError of conn.request is caught; the
\* connection has no timeout, so conn.getresponse() waits for as long as the
\* peer sends nothing ("BLOCK": the call does not return).
collector_status(w, sf) ==
    IF w.reqErr THEN "DEAD"
    ELSE IF w.hang THEN "BLOCK"
    ELSE IF w.recvErr THEN "RAISE"
    ELSE IF w.code # 200 THEN "DEAD"
    ELSE IF w.body = "malformed" THEN "RAISE"
    ELSE IF ~w.healthy \/ w.statusStr # "StatusOK" THEN "UNHEALTHY"
    ELSE LET endpoint == fetch_receiver_endpoint(w)
             expected_endpoint ==
                 IF sf # None THEN sf ELSE OTLP_DEFAULT_TCP_ENDPOINT
         IN  IF endpoint.raised THEN "RAISE"
             ELSE IF endpoint.value # expected_endpoint THEN "WRONG_ENDPOINT"
             ELSE "HEALTHY"

Status == {"HEALTHY", "WRONG_ENDPOINT", "UNHEALTHY", "DEAD"}

\* conn.request() did not raise ConnectionError: a process listening on the
\* health port accepted the connection
accepted(w) == ~w.reqErr

\* ------------------------------------------------- the sockets folder
\* Paths and names are modelled by their lengths.  A directory is its
\* length and whether it ends with a separator.
Dir(n, slash) == [len |-> n, slash |-> slash]

\* len(os.path.join(d, name)) for a relative, non-empty name
join_len(d, n) == d.len + (IF d.slash THEN 0 ELSE 1) + n

\* len(s[:k]) for len(s) = n: Python counts a negative k from the end
slice_len(n, k) ==
    IF k >= 0 THEN (IF k < n THEN k ELSE n)
    ELSE (IF n + k > 0 THEN n + k ELSE 0)

\* path = "/tmp"; on linux env.get("XDG_RUNTIME_DIR", "/tmp"), on darwin
\* env.get("TMPDIR", "/tmp")
base_dir(plat, env) ==
    IF plat \in {"linux", "darwin"} /\ env.set
    THEN Dir(env.len, env.slash)
    ELSE Dir(TMP_LEN, FALSE)

\* len(os.path.join(path, user, "siso"))
siso_dir_len(d, user) == join_len(Dir(join_len(d, user), FALSE), SISO_LEN)

allowed_length(path_len) == SOCK_PATH_MAX - path_len - SOCK_RESERVED

\* if allowed_length < 1
needs_fallback(allowed) == allowed < 1

\* _resolve_sockets_folder: the length of the returned path, the returned
\* allowed_length, and whether the /tmp fallback was taken
resolve_sockets_folder(plat, env, user) ==
    LET path == siso_dir_len(base_dir(plat, env), user)
        fallback == siso_dir_len(Dir(TMP_LEN, FALSE), user)
    IN  IF needs_fallback(allowed_length(path))
        THEN [path |-> fallback, allowed |-> allowed_length(fallback),
              fallback |-> TRUE]
        ELSE [path |-> path, allowed |-> allowed_length(path),
              fallback |-> FALSE]

\* len(f"{project[:remainder_len]}.sock")
sock_name_len(project_len, remainder_len) ==
    slice_len(project_len, remainder_len) + SOCK_EXT_LEN

\* len(os.path.join(path, f"{project[:remainder_len]}.sock"))
sockets_file_len(folder, project_len) ==
    join_len(Dir(folder.path, FALSE),
             sock_name_len(project_len, folder.allowed))

\* ------------------------------------------------- the project identifier
\* a flag that was not given (argparse leaves None), an environment
\* variable that is not in env
Absent == "<absent>"

\* Python truth of a parsed flag value: None and "" are false
Given(v) == v # Absent /\ v # ""

\* mutant: SISO_PROJECT is looked at before RBE_metrics_project
fetch_metrics_project_siso_first(known_args, env) ==
    IF Given(known_args.metrics_project) THEN known_args.metrics_project
    ELSE IF Given(known_args.project) THEN known_args.project
    ELSE IF env.SISO_PROJECT # Absent THEN env.SISO_PROJECT
    ELSE IF env.RBE_metrics_project # Absent THEN env.RBE_metrics_project
    ELSE ""

\* _fetch_metrics_project: the flags by their truth, the environment
\* variables by their presence
fetch_metrics_project(known_args, env) ==
    IF Given(known_args.metrics_project) THEN known_args.metrics_project
    ELSE IF Given(known_args.project) THEN known_args.project
    ELSE IF env.RBE_metrics_project # Absent THEN env.RBE_metrics_project
    ELSE IF env.SISO_PROJECT # Absent THEN env.SISO_PROJECT
    ELSE ""

\* ------------------------------------------------- the atomic file writer
\* gerrit_cache.py.  A file is Absent or its content.  The body of the with
\* statement is what it wrote to f before it ended and how it ended:
\* "completes", "raises" (an Exception), "interrupted" (a BaseException
\* that is no Exception: KeyboardInterrupt, SystemExit).  The outcomes of
\* the system calls: tempfile.mkstemp, closing f (the flush), and
\* gclient_utils.safe_replace, each succeeds or raises.
Body(w, o) == [writes |-> w, outcome |-> o]

OsCalls(m, c, r) == [mkstempOk |-> m, closeOk |-> c, replaceOk |-> r]

AfwResult(target, temp, raised) ==
    [target |-> target, temp |-> temp, raised |-> raised]

\* fd, temp_path = tempfile.mkstemp(...); with os.fdopen(fd, mode) as f
written_file == "temp"

\* except Exception: if os.path.exists(temp_path): os.remove(temp_path)
cleans_up(raised) == raised = "Exception"

\* _AtomicFileWriter(path) around a body: the target and the temporary
\* file afterwards, and what was raised out of the with statement
AtomicFileWriter(old, body, os) ==
    IF ~os.mkstempOk THEN AfwResult(old, Absent, "Exception")
    ELSE LET target == IF written_file = "target" THEN body.writes ELSE old
             temp == IF written_file = "temp" THEN body.writes ELSE ""
             raised ==
                 IF body.outcome = "interrupted" THEN "BaseException"
                 ELSE IF body.outcome = "raises" \/ ~os.closeOk
                         \/ ~os.replaceOk
                 THEN "Exception"
                 ELSE "none"
         IN  IF raised = "none" THEN AfwResult(temp, Absent, "none")
             ELSE AfwResult(target,
                            IF cleans_up(raised) THEN Absent ELSE temp,
                            raised)

\* ------------------------------------------------------- the gerrit cache
\* Python keys and values are named by their repr: two str keys and the
\* int 1; a str, a tuple and a set.
PyNone == "None"
PyKeys == {"'k'", "'1'", "1"}
PyValues == {"'v'", "(1, 2)", "{1}"}

IsStr(k) == k # "1"

\* json.dump(data, f): a key that is no str is written as its str, a tuple
\* as a list; a set makes json.dump raise TypeError
json_key(k) == IF k = "1" THEN "'1'" ELSE k

Serializable(v) == v # "{1}"

json_value(v) == IF v = "(1, 2)" THEN "[1, 2]" ELSE v

JsonKeys == {json_key(k) : k \in PyKeys}

EmptyDict == [k \in JsonKeys |-> Absent]

\* a cache file: not there, not JSON (an empty file is not), or an object
FileAbsent == [state |-> "absent", data |-> EmptyDict]
FileCorrupt == [state |-> "corrupt", data |-> EmptyDict]
FileJson(d) == [state |-> "json", data |-> d]

\* mutant: set() always starts from an empty object
loaded_data_fresh(f) == EmptyDict

\* data = {}; if os.path.exists(...): data = json.load(f), {} on ValueError
loaded_data(f) == IF f.state = "json" THEN f.data ELSE EmptyDict

\* data.get(key) on the loaded object, whose keys are all str
dict_get(data, k) ==
    IF IsStr(k) /\ data[k] # Absent THEN data[k] ELSE PyNone

\* mutant: the ValueError of json.load leaves get()
cache_get_raises_on_corrupt(f, k, lockOk) ==
    IF ~lockOk THEN PyNone
    ELSE IF f.state = "json" THEN dict_get(f.data, k)
    ELSE IF f.state = "corrupt" THEN "ValueError"
    ELSE PyNone

\* GerritCache.get: None when the lock is not had within the timeout, when
\* the file is not there, and when it is no JSON
cache_get(f, k, lockOk) ==
    IF ~lockOk THEN PyNone
    ELSE IF f.state = "json" THEN dict_get(f.data, k)
    ELSE PyNone

\* GerritCache.set: the cache file afterwards, and whether it was written;
\* every Exception is swallowed
cache_set(f, k, v, lockOk, os) ==
    IF ~lockOk THEN [file |-> f, wrote |-> FALSE]
    ELSE LET data == [loaded_data(f) EXCEPT ![json_key(k)] = json_value(v)]
             body == Body(FileJson(data),
                          IF Serializable(v) THEN "completes" ELSE "raises")
             r == AtomicFileWriter(f, body, os)
         IN  [file |-> r.target, wrote |-> r.raised = "none"]

\* mutant: set() reads the cache file before it takes the lock
set_step_after_read_unlocked(l) ==
    CASE l = "start" -> "read"
      [] l = "read" -> "lock"
      [] l = "lock" -> "open_temp"
      [] l = "open_temp" -> "dump"
      [] l = "dump" -> "replace"
      [] l = "replace" -> "unlock"
      [] OTHER -> "done"

\* GerritCache.set, statement by statement: with lockfile.lock(...), the
\* json.load, with _AtomicFileWriter(...) (mkstemp), json.dump, the
\* safe_replace at the end of the writer, the end of the lock
set_step_after(l) ==
    CASE l = "start" -> "lock"
      [] l = "lock" -> "read"
      [] l = "read" -> "open_temp"
      [] l = "open_temp" -> "dump"
      [] l = "dump" -> "replace"
      [] l = "replace" -> "unlock"
      [] OTHER -> "done"

\* GerritCache.get: with lockfile.lock(...), open and json.load, the end of
\* the lock
get_step_after(l) ==
    CASE l = "start" -> "lock"
      [] l = "lock" -> "read"
      [] l = "read" -> "unlock"
      [] OTHER -> "done"

\* lockfile.lock(path, timeout=1): one process has the lock of a path at a
\* time (holder 0: nobody); the others wait, and raise after the timeout
lock_is_free(holder) == holder = 0

\* a temporary file json.dump has not finished writing
FilePartial == [state |-> "partial", data |-> EmptyDict]

Instances == {1, 2}
Paths == {"env", "det", "tmp1", "tmp2", "fb1", "fb2"}

\* tempfile.mkstemp(prefix='depot_tools_gerrit_cache_'): a new file each
\* time; the fallback tempfile.mkstemp(prefix='gerrit_cache_')
tmp_path(i) == IF i = 1 THEN "tmp1" ELSE "tmp2"
fallback_path(i) == IF i = 1 THEN "fb1" ELSE "fb2"

\* ------------------------------------------------------------ the reaper
\* f'127.0.0.1:{_OTLP_HEALTH_PORT}'
HEALTH_ADDR == "127.0.0.1:13133"

\* platform.system() of the platform named by sys.platform
system_of(p) ==
    IF p = "linux" THEN "Linux"
    ELSE IF p = "darwin" THEN "Darwin"
    ELSE IF p = "win32" THEN "Windows"
    ELSE p

QuerySystems == {"Linux", "Darwin", "Windows"}

\* One line of the process-table output: the local address and the PID.
\* lsof -t -i:13133 prints the PID alone (every line is about the port);
\* netstat -aon prints every socket of the machine.
Row(a, p) == [addr |-> a, pid |-> p]

\* What the process table and the kill primitive answer to one call:
\* missing: the query program cannot be run, rc: its return code,
\* out: its output lines, killOk: the kill of the chosen PID succeeds.
Table(m, rc, out, k) == [missing |-> m, rc |-> rc, out |-> out, killOk |-> k]

ProcessTables ==
    {Table(TRUE, 0, <<>>, TRUE),
     Table(FALSE, 1, <<>>, TRUE),
     Table(FALSE, 0, <<>>, TRUE),
     Table(FALSE, 0, <<Row(HEALTH_ADDR, 0)>>, TRUE),
     Table(FALSE, 0, <<Row(HEALTH_ADDR, 7)>>, TRUE),
     Table(FALSE, 0, <<Row(HEALTH_ADDR, 7)>>, FALSE),
     Table(FALSE, 0, <<Row(HEALTH_ADDR, 0), Row(HEALTH_ADDR, 7),
                       Row(HEALTH_ADDR, 7), Row(HEALTH_ADDR, 9)>>, TRUE)}

NonZero(pid) == pid # 0

OnHealthPort(row) == row.addr = HEALTH_ADDR

\* pids = [int(p) for p in ...split()] on Linux and Darwin; on Windows the
\* last column of the lines whose local address is 127.0.0.1:13133
query_pids(sys, t) ==
    IF sys \in {"Linux", "Darwin"}
    THEN [i \in 1..Len(t.out) |-> t.out[i].pid]
    ELSE IF sys = "Windows"
    THEN LET rows == SelectSeq(t.out, OnHealthPort)
         IN  [i \in 1..Len(rows) |-> rows[i].pid]
    ELSE <<>>

\* mutant: PID 0 is not filtered out
candidate_pids_unfiltered(pids) == pids

\* pids = [pid for pid in pids if pid != 0]
candidate_pids(pids) == SelectSeq(pids, NonZero)

\* subprocess.run raises (FileNotFoundError) when lsof / netstat cannot be
\* run: nothing in _kill_collector catches it
query_raises(sys, t) == sys \in QuerySystems /\ t.missing

KillResult(raised, result, killed) ==
    [raised |-> raised, result |-> result, killed |-> killed]

\* _kill_collector: result is its return value, killed the PIDs it called
\* os.kill / taskkill for, raised whether an exception left it.
kill_collector(sys, t) ==
    IF query_raises(sys, t) THEN KillResult(TRUE, FALSE, <<>>)
    ELSE IF sys \in QuerySystems /\ t.rc # 0
    THEN KillResult(FALSE, FALSE, <<>>)
    ELSE LET pids == candidate_pids(query_pids(sys, t))
         IN  IF pids = <<>> THEN KillResult(FALSE, FALSE, <<>>)
             ELSE IF sys \in QuerySystems
             THEN KillResult(FALSE, t.killOk, <<pids[1]>>)
             ELSE KillResult(FALSE, FALSE, <<>>)

\* ------------------------------------------------------------------- Init
\* no GerritCache exists
NoCache ==
    /\ files = None /\ git_config = "" /\ cache_path = None
    /\ history = None /\ ops = 0

\* no concurrent processes are followed
NoConc == procs = None /\ lock = None /\ collectors = None

Init ==
    /\ pc = "handle_collector_args"
    /\ platform \in Platforms
    /\ enable_collector \in BOOLEAN
    /\ project \in {"", "proj"}
    /\ ninja_marker \in BOOLEAN
    /\ help_request \in BOOLEAN
    /\ should_collect_logs \in BOOLEAN
    /\ sock_exists \in (IF platform = "win32" THEN {FALSE} ELSE BOOLEAN)
    /\ sockets_file = None
    /\ now = 0
    /\ start = 0
    /\ status = "none"
    /\ init_status = "none"
    /\ started = "pending"
    /\ outcome = "none"
    /\ advertised = None
    /\ enable_false = FALSE
    /\ spawns = 0
    /\ kills = 0
    /\ reaped = "none"
    /\ polls = 0
    /\ sleeps = 0
    /\ removes = 0
    /\ probe_at = 0
    /\ returned_at = 0
    /\ arg = None
    /\ ret = None
    /\ listener = "none"
    /\ NoCache
    /\ NoConc

\* ------------------------------------------------- decisions of the code
\* mutant: the HEALTHY early return is missing
after_initial_probe_no_fast_path(s) ==
    IF s # "DEAD" THEN "kill_collector" ELSE "remove_socket"

\* mutant: only an UNHEALTHY collector is reaped
after_initial_probe_reap_unhealthy_only(s) ==
    IF s = "HEALTHY" THEN "return_true"
    ELSE IF s = "UNHEALTHY" THEN "kill_collector"
    ELSE "remove_socket"

\* mutant: no collector is reaped
after_initial_probe_never_reaps(s) ==
    IF s = "HEALTHY" THEN "return_true" ELSE "remove_socket"

\* if status == Status.HEALTHY: return True
\* if status != Status.DEAD: if not _kill_collector(): return False
after_initial_probe(s) ==
    IF s = "HEALTHY" THEN "return_true"
    ELSE IF s # "DEAD" THEN "kill_collector"
    ELSE "remove_socket"

\* mutant: the result of _kill_collector is ignored
after_kill_ignored(ok) == "remove_socket"

\* if not _kill_collector(): return False
after_kill(ok) == IF ok THEN "remove_socket" ELSE "return_false"

\* mutant: the stale socket file is left in place
should_remove_never(sf, exists) == FALSE

\* if sockets_file and os.path.exists(sockets_file)
should_remove(sf, exists) == sf # None /\ exists

\* except OSError ...: return False
after_remove(ok) == IF ok THEN "start_collector" ELSE "return_false"

\* while time.time() - start < 1
loop_continues(t, st) == t - st < DEADLINE_MS

\* mutant: a DEAD verdict ends the polling loop
after_poll_dead_ends(s) ==
    IF s = "HEALTHY" THEN "return_true"
    ELSE IF s = "DEAD" THEN "return_false"
    ELSE "sleep"

\* if status == Status.HEALTHY: return True; time.sleep(0.05)
after_poll(s) == IF s = "HEALTHY" THEN "return_true" ELSE "sleep"

\* mutant: start_collector is called inside the while loop
after_sleep_respawn == "start_collector"

\* the statement after time.sleep(0.05) is the loop test again
after_sleep == "loop_check"

\* mutant: the loop falls through to return True
timeout_result_true == "true"

\* return False, after the while loop
timeout_result == "false"

\* mutant: a failed supervision ends the wrapper
after_handle_result_fatal(ok) == IF ok THEN "check_outdir" ELSE "exit1"

\* _handle_collector_args returns args in both branches; main goes on
after_handle_result(ok) == "check_outdir"

\* args.append(f"--collector_address=unix://{sockets_file}") if sockets_file
advertised_endpoint(sf) == IF sf # None THEN <<UnixScheme>> \o sf ELSE None

\* start_collector: cmd += ["--collector_address", f"unix://{sockets_file}"]
\* if sockets_file
collector_address(sf) == IF sf # None THEN <<UnixScheme>> \o sf ELSE None

\* ----------------------------------------------------- the argument list
\* An argument is a sequence of pieces, as an endpoint is.
DashFlag == <<"-enable_collector">>
DashDashFlag == <<"--enable_collector">>
DisableFlag == <<"--enable_collector=false">>

\* x in xs
Contains(xs, x) == \E i \in 1..Len(xs) : xs[i] = x

\* xs.remove(x): the first occurrence of x leaves the list
list_remove(xs, x) ==
    IF ~Contains(xs, x) THEN xs
    ELSE LET i == CHOOSE j \in 1..Len(xs) :
                      xs[j] = x /\ \A k \in 1..(j - 1) : xs[k] # x
         IN  SubSeq(xs, 1, i - 1) \o SubSeq(xs, i + 1, Len(xs))

\* parser.parse_known_args(args).enable_collector: the store_true option
\* -enable_collector / --enable_collector occurs in args
parses_enable_collector(args) ==
    Contains(args, DashFlag) \/ Contains(args, DashDashFlag)

\* _handle_collector_args, lines 353-363: the list it returns after
\* _start_collector returned started
handle_result_args(args, is_started, sf) ==
    IF is_started
    THEN IF sf # None
         THEN Append(args, <<"--collector_address=", UnixScheme>> \o sf)
         ELSE args
    ELSE LET removed ==
                 IF Contains(args, DashFlag)
                 THEN list_remove(args, DashFlag)
                 ELSE IF Contains(args, DashDashFlag)
                 THEN list_remove(args, DashDashFlag)
                 ELSE args
         IN  Append(removed, DisableFlag)

\* ---------------------------------------------------------------- actions
\* _start_collector returns r; _handle_collector_args goes on at line 353
Return(r, why, t) ==
    /\ pc' = "handle_result"
    /\ started' = r
    /\ outcome' = why
    /\ returned_at' = t

\* an exception leaves _start_collector, _handle_collector_args and main
Raise ==
    /\ pc' = "crashed"
    /\ outcome' = "raised"
    /\ UNCHANGED <<started, returned_at>>

Goto(l) ==
    /\ pc' = l
    /\ UNCHANGED <<started, outcome, returned_at>>

\* if not known_args.enable_collector: return args
\* if not project: return args
skips_collector(enabled, proj) == ~enabled \/ proj = ""

\* _handle_collector_args, lines 335-350.  parser.parse_known_args(args)
\* of an ArgumentParser() that keeps its default -h/--help option prints
\* the usage and raises SystemExit when the arguments hold a help flag.
HandleCollectorArgs ==
    /\ pc = "handle_collector_args"
    /\ IF help_request
       THEN /\ pc' = "argparse_exit"
            /\ outcome' = "argparse_exit"
            /\ UNCHANGED <<started, returned_at, sockets_file>>
       ELSE IF skips_collector(enable_collector, project)
       THEN /\ pc' = "check_outdir"
            /\ outcome' = "skipped"
            /\ UNCHANGED <<started, returned_at, sockets_file>>
       ELSE IF platform \in {"darwin", "linux"}
       THEN \E mkdirOk \in BOOLEAN :
               IF mkdirOk
               THEN /\ sockets_file' = SocketPath
                    /\ Goto("is_subcommand_present")
               ELSE /\ pc' = "crashed"
                    /\ outcome' = "makedirs_failed"
                    /\ UNCHANGED <<started, returned_at, sockets_file>>
       ELSE /\ sockets_file' = None
            /\ Goto("is_subcommand_present")
    /\ UNCHANGED <<CacheVars, ConcVars, listener,
                   platform, enable_collector, project, ninja_marker,
                   help_request, should_collect_logs, arg, ret, removes,
                   sock_exists, now, start, status, init_status, advertised,
                   enable_false, spawns, kills, reaped, polls, sleeps, probe_at>>

\* _start_collector, lines 135-137
IsSubcommandPresent ==
    /\ pc = "is_subcommand_present"
    /\ \E present \in BOOLEAN :
          IF present THEN Goto("initial_probe")
          ELSE Return("false", "unsupported", now)
    /\ UNCHANGED <<CacheVars, ConcVars, listener,
                   platform, enable_collector, project, ninja_marker,
                   help_request, should_collect_logs, arg, ret, removes,
                   sock_exists, sockets_file, now, start, status, init_status,
                   advertised, enable_false, spawns, kills, reaped, polls, sleeps,
                   probe_at>>

\* _start_collector, lines 193-199
InitialProbe ==
    /\ pc = "initial_probe"
    /\ start' = now
    /\ probe_at' = now
    /\ \E w \in HttpWorlds, d \in InitialProbeDurations :
          LET s == collector_status(w, sockets_file)
              l == after_initial_probe(s)
          IN  /\ now' = now + d
              /\ status' = s
              /\ init_status' = s
              /\ listener' = IF accepted(w) THEN "yes" ELSE "no"
              /\ IF s = "RAISE" THEN Raise
                 ELSE IF s = "BLOCK" THEN Goto("blocked")
                 ELSE IF l = "return_true"
                 THEN Return("true", "healthy", now + d)
                 ELSE Goto(l)
    /\ UNCHANGED <<CacheVars, ConcVars,
                   platform, enable_collector, project, ninja_marker,
                   help_request, should_collect_logs, arg, ret, removes,
                   sock_exists, sockets_file, advertised, enable_false,
                   spawns, kills, reaped, polls, sleeps>>

\* _start_collector, line 198: the call of _kill_collector
KillCollector ==
    /\ pc = "kill_collector"
    /\ kills' = kills + 1
    /\ \E t \in ProcessTables, d \in KillDurations :
          LET r == kill_collector(system_of(platform), t)
              l == after_kill(r.result)
          IN  /\ now' = now + d
              /\ IF r.raised
                 THEN /\ Raise
                      /\ UNCHANGED reaped
                 ELSE /\ reaped' = IF r.result THEN "true" ELSE "false"
                      /\ IF l = "return_false"
                         THEN Return("false", "reap_failed", now + d)
                         ELSE Goto(l)
    /\ UNCHANGED <<CacheVars, ConcVars, listener,
                   platform, enable_collector, project, ninja_marker,
                   help_request, should_collect_logs, arg, ret, removes,
                   sock_exists, sockets_file, start, status, init_status,
                   advertised, enable_false, spawns, polls, sleeps, probe_at>>

\* _start_collector, lines 202-210
RemoveSocket ==
    /\ pc = "remove_socket"
    /\ IF should_remove(sockets_file, sock_exists)
       THEN \E ok \in BOOLEAN :
               LET l == after_remove(ok)
               IN  /\ sock_exists' = ~ok
                   /\ removes' = removes + 1
                   /\ IF l = "return_false"
                      THEN Return("false", "cleanup_failed", now)
                      ELSE Goto(l)
       ELSE /\ Goto("start_collector")
            /\ UNCHANGED <<sock_exists, removes>>
    /\ UNCHANGED <<CacheVars, ConcVars, listener,
                   platform, enable_collector, project, ninja_marker,
                   help_request, should_collect_logs, arg, ret,
                   sockets_file, now, start, status, init_status, advertised,
                   enable_false, spawns, kills, reaped, polls, sleeps, probe_at>>

\* _start_collector, line 212: start_collector(sockets_file)
StartCollector ==
    /\ pc = "start_collector"
    /\ spawns' = spawns + 1
    /\ Goto("loop_check")
    /\ UNCHANGED <<CacheVars, ConcVars, listener,
                   platform, enable_collector, project, ninja_marker,
                   help_request, should_collect_logs, arg, ret, removes,
                   sock_exists, sockets_file, now, start, status, init_status,
                   advertised, enable_false, kills, reaped, polls, sleeps, probe_at>>

\* _start_collector, line 214 and line 219
LoopCheck ==
    /\ pc = "loop_check"
    /\ IF loop_continues(now, start) THEN Goto("poll")
       ELSE Return(timeout_result, "timed_out", now)
    /\ UNCHANGED <<CacheVars, ConcVars, listener,
                   platform, enable_collector, project, ninja_marker,
                   help_request, should_collect_logs, arg, ret, removes,
                   sock_exists, sockets_file, now, start, status, init_status,
                   advertised, enable_false, spawns, kills, reaped, polls, sleeps,
                   probe_at>>

\* _start_collector, lines 215-217
Poll ==
    /\ pc = "poll"
    /\ polls' = polls + 1
    /\ probe_at' = now
    /\ \E w \in HttpWorlds, d \in ProbeDurations :
          LET s == collector_status(w, sockets_file)
              l == after_poll(s)
          IN  /\ now' = now + d
              /\ status' = s
              /\ IF s = "RAISE" THEN Raise
                 ELSE IF s = "BLOCK" THEN Goto("blocked")
                 ELSE IF l = "return_true"
                 THEN Return("true", "healthy", now + d)
                 ELSE Goto(l)
    /\ UNCHANGED <<CacheVars, ConcVars, listener,
                   platform, enable_collector, project, ninja_marker,
                   help_request, should_collect_logs, arg, ret, removes,
                   sock_exists, sockets_file, start, init_status, advertised,
                   enable_false, spawns, kills, reaped, sleeps>>

\* _start_collector, line 218
Sleep ==
    /\ pc = "sleep"
    /\ now' = now + SLEEP_MS
    /\ sleeps' = sleeps + 1
    /\ Goto(after_sleep)
    /\ UNCHANGED <<CacheVars, ConcVars, listener,
                   platform, enable_collector, project, ninja_marker,
                   help_request, should_collect_logs, arg, ret, removes,
                   sock_exists, sockets_file, start, status, init_status,
                   advertised, enable_false, spawns, kills, reaped, polls, probe_at>>

\* _handle_collector_args, lines 353-363
HandleResult ==
    /\ pc = "handle_result"
    /\ IF started = "true"
       THEN /\ advertised' = advertised_endpoint(sockets_file)
            /\ UNCHANGED enable_false
       ELSE /\ enable_false' = TRUE
            /\ UNCHANGED advertised
    /\ Goto(after_handle_result(started = "true"))
    /\ UNCHANGED <<CacheVars, ConcVars, listener,
                   platform, enable_collector, project, ninja_marker,
                   help_request, should_collect_logs, arg, ret, removes,
                   sock_exists, sockets_file, now, start, status, init_status,
                   spawns, kills, reaped, polls, sleeps, probe_at>>

\* main, line 557: check_outdir(subcmd, out_dir)
CheckOutdir ==
    /\ pc = "check_outdir"
    /\ IF ninja_marker THEN Goto("exit1") ELSE Goto("call_siso")
    /\ UNCHANGED <<CacheVars, ConcVars, listener,
                   platform, enable_collector, project, ninja_marker,
                   help_request, should_collect_logs, arg, ret, removes,
                   sock_exists, sockets_file, now, start, status, init_status,
                   advertised, enable_false, spawns, kills, reaped, polls, sleeps,
                   probe_at>>

\* main, line 558: caffeinate.call([siso_path] + processed_args, env=env)
CallSiso ==
    /\ pc = "call_siso"
    /\ Goto("done")
    /\ UNCHANGED <<CacheVars, ConcVars, listener,
                   platform, enable_collector, project, ninja_marker,
                   help_request, should_collect_logs, arg, ret, removes,
                   sock_exists, sockets_file, now, start, status, init_status,
                   advertised, enable_false, spawns, kills, reaped, polls, sleeps,
                   probe_at>>

Next ==
    \/ HandleCollectorArgs
    \/ IsSubcommandPresent
    \/ InitialProbe
    \/ KillCollector
    \/ RemoveSocket
    \/ StartCollector
    \/ LoopCheck
    \/ Poll
    \/ Sleep
    \/ HandleResult
    \/ CheckOutdir
    \/ CallSiso

Spec == Init /\ [][Next]_vars

\* the interpreter keeps running the wrapper: a step that can be taken is
\* taken, and every step that waits (probe, kill, sleep) advances the clock
FairSpec == Spec /\ WF_vars(Next)

\* ------------------------------------------- functions called on their own
\* the wrapper's own state while one of its functions is called on its own
SisoIdle ==
    /\ platform = "linux" /\ enable_collector = FALSE /\ project = ""
    /\ ninja_marker = FALSE /\ help_request = FALSE
    /\ should_collect_logs = FALSE /\ sock_exists = FALSE
    /\ sockets_file = None /\ now = 0 /\ start = 0
    /\ status = "none" /\ init_status = "none" /\ started = "pending"
    /\ outcome = "none" /\ advertised = None /\ enable_false = FALSE
    /\ spawns = 0 /\ kills = 0 /\ reaped = "none" /\ polls = 0
    /\ sleeps = 0 /\ removes = 0 /\ probe_at = 0 /\ returned_at = 0
    /\ listener = "none"

Idle == SisoIdle /\ NoCache /\ NoConc

\* the wrapper's variables, left alone by the gerrit cache
SisoVars ==
    <<platform, enable_collector, project, ninja_marker, help_request,
      should_collect_logs, sock_exists, sockets_file, now, start, status,
      init_status, started, outcome, advertised, enable_false, spawns,
      kills, reaped, polls, sleeps, removes, probe_at, returned_at,
      listener>>

\* the call: ret becomes the value the function computes from arg
Call(from, to, value) ==
    /\ pc = from
    /\ pc' = to
    /\ ret' = value
    /\ UNCHANGED <<CacheVars, ConcVars, listener,
                   platform, enable_collector, project, ninja_marker,
                   help_request, should_collect_logs, sock_exists,
                   sockets_file, now, start, status, init_status, started,
                   outcome, advertised, enable_false, spawns, kills, reaped,
                   polls, sleeps, removes, probe_at, returned_at, arg>>

\* --- _fetch_metrics_project() and the skip of _handle_collector_args
FetchInputs ==
    [args : [metrics_project : {Absent, "", "mp"},
             project : {Absent, "", "p"}],
     env : [RBE_metrics_project : {Absent, "", "rbe"},
            SISO_PROJECT : {Absent, "", "sp"}]]

FetchInit == pc = "fetch_call" /\ arg \in FetchInputs /\ ret = None /\ Idle

FetchCall ==
    Call("fetch_call", "fetch_ret", fetch_metrics_project(arg.args, arg.env))

\* _handle_collector_args, lines 344-346, -enable_collector being given:
\* project = _fetch_metrics_project(args, env); if not project: return args
FetchDecide ==
    Call("fetch_ret",
         IF skips_collector(TRUE, ret) THEN "fetch_skipped"
         ELSE "fetch_supervise",
         ret)

FetchNext == FetchCall \/ FetchDecide

FetchSpec == FetchInit /\ [][FetchNext]_vars

\* --- _AtomicFileWriter around every small body
Texts == {"", "old", "content"}
Bodies ==
    {Body(w, o) : w \in Texts,
                  o \in {"completes", "raises", "interrupted"}}
AllOsCalls ==
    {OsCalls(m, c, r) : m \in BOOLEAN, c \in BOOLEAN, r \in BOOLEAN}
AfwInputs ==
    [old : Texts \cup {Absent}, body : Bodies, os : AllOsCalls]

AfwInit == pc = "afw_call" /\ arg \in AfwInputs /\ ret = None /\ Idle

AfwCall ==
    Call("afw_call", "afw_ret",
         AtomicFileWriter(arg.old, arg.body, arg.os))

AfwNext == AfwCall

AfwSpec == AfwInit /\ [][AfwNext]_vars

\* --- two GerritCache instances of one root, and their get() and set()
\* env_path: DEPOT_TOOLS_GERRIT_CACHE_PATH is set; git: git config can be
\* read and written in root_dir; root: root_dir is not empty; found: the
\* cache file as an earlier run left it
CacheInputs ==
    [env_path : BOOLEAN, git : BOOLEAN, root : BOOLEAN,
     found : {FileAbsent, FileCorrupt}]

\* the lock is had, or lockfile.lock times out; with the lock had the
\* file system works, or the rename of the temporary file fails
LockOutcomes == BOOLEAN
SetOutcomes ==
    {[lockOk |-> FALSE, os |-> OsCalls(TRUE, TRUE, TRUE)],
     [lockOk |-> TRUE, os |-> OsCalls(TRUE, TRUE, TRUE)],
     [lockOk |-> TRUE, os |-> OsCalls(TRUE, TRUE, FALSE)]}

CacheInit ==
    /\ pc = "cache_new1"
    /\ arg \in CacheInputs
    /\ ret = None
    /\ SisoIdle
    /\ NoConc
    /\ files = [p \in Paths |->
                  IF p \in {"env", "det"} THEN arg.found ELSE FileAbsent]
    /\ git_config = ""
    /\ cache_path = [i \in Instances |-> ""]
    /\ history = [k \in PyKeys |-> [value |-> Absent, wrote |-> FALSE]]
    /\ ops = 0

\* GerritCache.__init__ / _get_cache_path of instance i
CacheNew(i, from, to) ==
    /\ pc = from
    /\ pc' = to
    /\ IF arg.env_path
       THEN /\ cache_path' = [cache_path EXCEPT ![i] = "env"]
            /\ UNCHANGED <<files, git_config>>
       ELSE IF arg.git /\ git_config # ""
       THEN /\ cache_path' = [cache_path EXCEPT ![i] = git_config]
            /\ UNCHANGED <<files, git_config>>
       ELSE \E createOk \in BOOLEAN :
               IF createOk
               THEN LET path == IF arg.root THEN "det" ELSE tmp_path(i)
                        made == IF ~arg.root THEN FileCorrupt
                                ELSE IF files[path].state = "absent"
                                THEN FileJson(EmptyDict)
                                ELSE files[path]
                    IN  /\ cache_path' = [cache_path EXCEPT ![i] = path]
                        /\ files' = [files EXCEPT ![path] = made]
                        /\ git_config' =
                              IF arg.git THEN path ELSE git_config
               ELSE /\ cache_path' =
                         [cache_path EXCEPT ![i] = fallback_path(i)]
                    /\ files' =
                         [files EXCEPT ![fallback_path(i)] = FileCorrupt]
                    /\ UNCHANGED git_config
    /\ UNCHANGED <<SisoVars, ConcVars, arg, ret, history, ops>>

CacheNew1 == CacheNew(1, "cache_new1", "cache_new2")

CacheNew2 == CacheNew(2, "cache_new2", "cache_ready")

\* cache.set(k, v) on instance i
CacheSet ==
    /\ pc \in {"cache_ready", "cache_got"}
    /\ ops < MaxOps
    /\ ops' = ops + 1
    /\ pc' = "cache_ready"
    /\ \E i \in Instances, k \in PyKeys, v \in PyValues, o \in SetOutcomes :
          LET r == cache_set(files[cache_path[i]], k, v, o.lockOk, o.os)
          IN  /\ files' = [files EXCEPT ![cache_path[i]] = r.file]
              /\ history' = [history EXCEPT
                                ![k] = [value |-> v, wrote |-> r.wrote]]
    /\ UNCHANGED <<SisoVars, ConcVars, arg, ret, git_config, cache_path>>

\* cache.get(k) on instance i
CacheGet ==
    /\ pc \in {"cache_ready", "cache_got"}
    /\ ops < MaxOps
    /\ ops' = ops + 1
    /\ pc' = "cache_got"
    /\ \E i \in Instances, k \in PyKeys, lockOk \in LockOutcomes :
          ret' = [key |-> k, lockOk |-> lockOk,
                  value |-> cache_get(files[cache_path[i]], k, lockOk)]
    /\ UNCHANGED <<SisoVars, ConcVars, arg, files, git_config, cache_path, history>>

CacheNext == CacheNew1 \/ CacheNew2 \/ CacheSet \/ CacheGet

CacheSpec == CacheInit /\ [][CacheNext]_vars

\* --- _kill_collector() against every small process table
Pids == {0, 7, 9}
Rows == {Row(a, p) : a \in {HEALTH_ADDR, "0.0.0.0:135"}, p \in Pids}
Outputs == UNION {[1..n -> Rows] : n \in 0..MaxRows}
KillInputs ==
    {[sys |-> sys, t |-> Table(m, rc, out, k)] :
        sys \in QuerySystems \cup {"FreeBSD"}, m \in BOOLEAN,
        rc \in {0, 1}, out \in Outputs, k \in BOOLEAN}

KillInit == pc = "kill_call" /\ arg \in KillInputs /\ ret = None /\ Idle

KillCall == Call("kill_call", "kill_ret", kill_collector(arg.sys, arg.t))

KillNext == KillCall

KillSpec == KillInit /\ [][KillNext]_vars

\* --- _resolve_sockets_folder() and the socket path built from it
UserLens == {1, 8, 32, 87, 88, 89, MaxUserLen}
DirLens == {1, 14, 49, 83, 84, MaxDirLen}
ProjectLens == {0, 1, 5, 60, MaxProjectLen}
EnvDirs ==
    {[set |-> FALSE, len |-> 0, slash |-> FALSE]} \cup
    {[set |-> TRUE, len |-> n, slash |-> sl] :
        n \in DirLens, sl \in BOOLEAN}

ResolveInputs ==
    [plat : Platforms, env : EnvDirs, user : UserLens,
     project : ProjectLens]

ResolveInit ==
    pc = "resolve_call" /\ arg \in ResolveInputs /\ ret = None /\ Idle

ResolveCall ==
    Call("resolve_call", "resolve_ret",
         LET folder == resolve_sockets_folder(arg.plat, arg.env, arg.user)
         IN  [folder |-> folder,
              name |-> sock_name_len(arg.project, folder.allowed),
              file |-> sockets_file_len(folder, arg.project)])

ResolveNext == ResolveCall

ResolveSpec == ResolveInit /\ [][ResolveNext]_vars

\* --- collector_status() against every answer of the health port
AllWorlds ==
    [reqErr : BOOLEAN, recvErr : BOOLEAN, code : {200, 404},
     body : {"json", "malformed"}, healthy : BOOLEAN,
     statusStr : {"StatusOK", "NotOK"},
     cfg : {"ok", "malformed", "bad_shape", "missing_key"},
     endpoint : ReportedEndpoints, hang : BOOLEAN]

ProbeInputs ==
    [w : AllWorlds, sf : {None, SocketPath}, exists : BOOLEAN]

ProbeInit == pc = "probe_call" /\ arg \in ProbeInputs /\ ret = None /\ Idle

ProbeCall == Call("probe_call", "probe_ret", collector_status(arg.w, arg.sf))

ProbeNext == ProbeCall

ProbeSpec == ProbeInit /\ [][ProbeNext]_vars

\* --- the argument list _handle_collector_args returns
Tokens == {<<"ninja">>, DashFlag, DashDashFlag}

ArgLists == UNION {[1..n -> Tokens] : n \in 0..MaxArgs}

ArgsInputs ==
    [args : ArgLists, started : BOOLEAN, sf : {None, SocketPath}]

ArgsInit == pc = "args_call" /\ arg \in ArgsInputs /\ ret = None /\ Idle

ArgsCall ==
    /\ parses_enable_collector(arg.args)
    /\ Call("args_call", "args_ret",
            handle_result_args(arg.args, arg.started, arg.sf))

ArgsNext == ArgsCall

ArgsSpec == ArgsInit /\ [][ArgsNext]_vars


\* --- two processes set() and one get()s on one cache file, interleaved
Setters == {1, 2}
Getter == 3

\* the two set() calls use different keys
set_key(p) == IF p = 1 THEN "'k'" ELSE "'1'"
set_value(p) == "'v'"

ConcInputs ==
    [found : {FileAbsent, FileCorrupt, FileJson(EmptyDict),
              FileJson([EmptyDict EXCEPT !["'k'"] = "[1, 2]"])},
     get_key : {"'k'", "'1'"}]

ConcInit ==
    /\ pc = "conc" /\ arg \in ConcInputs /\ ret = None
    /\ SisoIdle /\ collectors = None
    /\ git_config = "" /\ cache_path = None /\ history = None /\ ops = 0
    /\ files = [cache |-> arg.found, tmp |-> [p \in Setters |-> FileAbsent]]
    /\ lock = 0
    /\ procs = [p \in Setters \cup {Getter} |->
                  [pc |-> "start", locked |-> FALSE, data |-> EmptyDict,
                   seen |-> "none", value |-> PyNone]]

ConcFrame ==
    UNCHANGED <<pc, SisoVars, arg, ret, collectors, git_config, cache_path,
                history, ops>>

step_after(p, l) ==
    IF p \in Setters THEN set_step_after(l) ELSE get_step_after(l)

\* the call begins
ConcStart(p) ==
    /\ procs[p].pc = "start"
    /\ procs' = [procs EXCEPT ![p].pc = step_after(p, "start")]
    /\ UNCHANGED <<files, lock>>
    /\ ConcFrame

\* with lockfile.lock(self.cache_path, timeout=1): the lock is had
ConcLock(p) ==
    /\ procs[p].pc = "lock"
    /\ lock_is_free(lock)
    /\ lock' = p
    /\ procs' = [procs EXCEPT ![p].pc = step_after(p, "lock"),
                              ![p].locked = TRUE]
    /\ UNCHANGED files
    /\ ConcFrame

\* the lock is not had within the timeout: the exception ends the call
ConcLockTimeout(p) ==
    /\ procs[p].pc = "lock"
    /\ ~lock_is_free(lock)
    /\ procs' = [procs EXCEPT ![p].pc = "done"]
    /\ UNCHANGED <<files, lock>>
    /\ ConcFrame

\* set: data = json.load(f), {} for no file or no JSON; data[key] = value
SetRead(p) ==
    /\ p \in Setters
    /\ procs[p].pc = "read"
    /\ procs' = [procs EXCEPT
                    ![p].pc = step_after(p, "read"),
                    ![p].data = [loaded_data(files.cache) EXCEPT
                                    ![set_key(p)] = set_value(p)]]
    /\ UNCHANGED <<files, lock>>
    /\ ConcFrame

\* _AtomicFileWriter: mkstemp in the directory of the cache file
SetOpenTemp(p) ==
    /\ p \in Setters
    /\ procs[p].pc = "open_temp"
    /\ files' = [files EXCEPT !.tmp[p] = FilePartial]
    /\ procs' = [procs EXCEPT ![p].pc = step_after(p, "open_temp")]
    /\ UNCHANGED lock
    /\ ConcFrame

\* json.dump(data, f), and the file is closed
SetDump(p) ==
    /\ p \in Setters
    /\ procs[p].pc = "dump"
    /\ files' = [files EXCEPT !.tmp[p] = FileJson(procs[p].data)]
    /\ procs' = [procs EXCEPT ![p].pc = step_after(p, "dump")]
    /\ UNCHANGED lock
    /\ ConcFrame

\* gclient_utils.safe_replace(temp_path, path)
SetReplace(p) ==
    /\ p \in Setters
    /\ procs[p].pc = "replace"
    /\ files' = [cache |-> files.tmp[p],
                 tmp |-> [files.tmp EXCEPT ![p] = FileAbsent]]
    /\ procs' = [procs EXCEPT ![p].pc = step_after(p, "replace")]
    /\ UNCHANGED lock
    /\ ConcFrame

\* get: json.load(f) and data.get(key), None for no file or no JSON
GetRead(p) ==
    /\ p = Getter
    /\ procs[p].pc = "read"
    /\ procs' = [procs EXCEPT
                    ![p].pc = step_after(p, "read"),
                    ![p].seen = files.cache.state,
                    ![p].value = cache_get(files.cache, arg.get_key, TRUE)]
    /\ UNCHANGED <<files, lock>>
    /\ ConcFrame

\* the with block of the lock ends
ConcUnlock(p) ==
    /\ procs[p].pc = "unlock"
    /\ lock' = IF lock = p THEN 0 ELSE lock
    /\ procs' = [procs EXCEPT ![p].pc = step_after(p, "unlock")]
    /\ UNCHANGED files
    /\ ConcFrame

ConcNext ==
    \E p \in Setters \cup {Getter} :
        \/ ConcStart(p)
        \/ ConcLock(p)
        \/ ConcLockTimeout(p)
        \/ SetRead(p)
        \/ SetOpenTemp(p)
        \/ SetDump(p)
        \/ SetReplace(p)
        \/ GetRead(p)
        \/ ConcUnlock(p)

ConcSpec == ConcInit /\ [][ConcNext]_vars

\* --- two wrapper invocations of one project, interleaved
\* Each runs _start_collector, lines 193-219; the collectors they spawn share
\* the health port and the socket path.  collectors.port is the collector
\* bound to the health port (0: none), collectors.sock the socket file and
\* the collector that created it (0: none, a file left behind).
Invocations == {1, 2}

RaceInit ==
    /\ pc = "race" /\ arg = None /\ ret = None
    /\ SisoIdle /\ NoCache /\ lock = None
    /\ procs = [i \in Invocations |-> [pc |-> "initial_probe", polls |-> 0]]
    /\ collectors \in
          [state : {[c \in Invocations |-> "none"]},
           port : {0},
           sock : {[exists |-> e, owner |-> 0] : e \in BOOLEAN}]

\* what the health port answers: nothing listens, or the collector bound to
\* it reports the socket path
RaceWorld ==
    IF collectors.port = 0 THEN [OkWorld(SocketPath) EXCEPT !.reqErr = TRUE]
    ELSE OkWorld(SocketPath)

RaceFrame == UNCHANGED <<pc, SisoVars, CacheVars, arg, ret, lock>>

\* line 194: status = collector_status()
RaceProbe(i) ==
    /\ procs[i].pc = "initial_probe"
    /\ LET l == after_initial_probe(collector_status(RaceWorld, SocketPath))
       IN  procs' = [procs EXCEPT
                        ![i].pc = IF l = "return_true" THEN "done_true" ELSE l]
    /\ UNCHANGED collectors
    /\ RaceFrame

\* lines 202-210: os.remove(sockets_file) when it exists
RaceRemove(i) ==
    /\ procs[i].pc = "remove_socket"
    /\ procs' = [procs EXCEPT ![i].pc = after_remove(TRUE)]
    /\ IF should_remove(SocketPath, collectors.sock.exists)
       THEN collectors' = [collectors EXCEPT
                              !.sock = [exists |-> FALSE, owner |-> 0]]
       ELSE UNCHANGED collectors
    /\ RaceFrame

\* line 212: start_collector(sockets_file), subprocess.Popen
RaceSpawn(i) ==
    /\ procs[i].pc = "start_collector"
    /\ procs' = [procs EXCEPT ![i].pc = "poll"]
    /\ collectors' = [collectors EXCEPT !.state[i] = "starting"]
    /\ RaceFrame

\* the spawned collector comes up: it binds the health port and creates the
\* socket file when both are free; what it does otherwise is not the
\* wrapper's code: it exits or lives on
CollectorUp(c) ==
    /\ collectors.state[c] = "starting"
    /\ IF collectors.port = 0 /\ ~collectors.sock.exists
       THEN collectors' = [state |-> [collectors.state EXCEPT ![c] = "serving"],
                           port |-> c,
                           sock |-> [exists |-> TRUE, owner |-> c]]
       ELSE \E o \in {"exited", "lingering"} :
               collectors' = [collectors EXCEPT !.state[c] = o]
    /\ UNCHANGED procs
    /\ RaceFrame

\* lines 214-219: the polling loop
RacePoll(i) ==
    /\ procs[i].pc = "poll"
    /\ LET l == after_poll(collector_status(RaceWorld, SocketPath))
       IN  procs' = [procs EXCEPT ![i] =
                        IF l = "return_true"
                        THEN [pc |-> "done_true", polls |-> @.polls + 1]
                        ELSE IF @.polls + 1 >= MaxRacePolls
                        THEN [pc |-> "done_false", polls |-> @.polls + 1]
                        ELSE [pc |-> "poll", polls |-> @.polls + 1]]
    /\ UNCHANGED collectors
    /\ RaceFrame

RaceNext ==
    \E i \in Invocations :
        \/ RaceProbe(i)
        \/ RaceRemove(i)
        \/ RaceSpawn(i)
        \/ CollectorUp(i)
        \/ RacePoll(i)

RaceSpec == RaceInit /\ [][RaceNext]_vars

\* ------------------------------------------------------------- properties
\* _start_collector has returned (True or False)
Returned == started # "pending"

\* the wrapper has ended: executor called, sys.exit(1), or an exception
WrapperEnded == pc \in {"done", "exit1", "crashed", "argparse_exit"}

\* the ways in which _start_collector returns False
SupervisionFailures ==
    {"unsupported", "reap_failed", "cleanup_failed", "timed_out"}

PosixPlatform == platform \in {"linux", "darwin"}

\* C1: in one invocation start_collector (the spawn) is called at most
\* once, whatever the probes answer and however often the loop runs.
C1_SpawnAtMostOnce == spawns <= 1

C1_Witness == spawns = 1 /\ polls >= 3 /\ sleeps >= 3 /\ Returned

\* C2: the endpoint is handed to the build executor exactly when the
\* supervision ended healthy: then it is the unix:// socket path on the
\* local-socket platforms and the loopback TCP endpoint otherwise; after
\* any other outcome it is absent.
C2_EndpointIffHealthy ==
    pc \in {"check_outdir", "call_siso", "done", "exit1"} =>
        IF outcome = "healthy"
        THEN advertised = (IF PosixPlatform
                           THEN <<UnixScheme>> \o SocketPath
                           ELSE OTLP_DEFAULT_TCP_ENDPOINT)
        ELSE advertised = None

C4_HealthyFastPath ==
    init_status = "HEALTHY" =>
        /\ started = "true"
        /\ outcome = "healthy"
        /\ kills = 0 /\ spawns = 0 /\ polls = 0 /\ sleeps = 0

C4_Witness == init_status = "HEALTHY" /\ pc = "done" /\ advertised # None

\* C5: after a first probe that is DEAD the reaper is never called, the
\* collector is spawned exactly once, and a HEALTHY poll makes the
\* supervisor return success.
C5_DeadSpawnsOnce ==
    (init_status = "DEAD" /\ Returned) =>
        /\ kills = 0
        /\ spawns = 1
        /\ (status = "HEALTHY" => started = "true")

\* C6: after a first probe that is neither HEALTHY nor DEAD the reaper is
\* called exactly once, before the spawn and before any poll, and not again.
C6_ReapOnceBeforeSpawn ==
    init_status \in Status \ {"HEALTHY", "DEAD"} =>
        IF pc = "kill_collector"
        THEN kills = 0 /\ spawns = 0 /\ polls = 0
        ELSE kills = 1

C6_Witness ==
    /\ init_status = "WRONG_ENDPOINT"
    /\ kills = 1 /\ spawns = 1 /\ polls >= 2
    /\ Returned

\* C7: when _kill_collector returns False the supervisor returns False
\* without spawning and without polling, and no endpoint is handed on.
C7_ReapFailureEnds ==
    reaped = "false" =>
        /\ started = "false"
        /\ outcome = "reap_failed"
        /\ spawns = 0 /\ polls = 0 /\ sleeps = 0
        /\ advertised = None

C7_Witness == reaped = "false" /\ pc = "done" /\ init_status = "UNHEALTHY"

\* C8: when every poll made before the deadline is not HEALTHY the
\* supervisor returns False, and the one spawn happened before the first
\* poll: polling never spawns.
C8_TimeoutSpawnedOnce ==
    /\ (Returned /\ spawns >= 1 /\ status # "HEALTHY") =>
           /\ started = "false"
           /\ outcome = "timed_out"
           /\ advertised = None
           /\ spawns = 1
           /\ ~loop_continues(now, start)
    /\ (pc = "start_collector" => polls = 0)
    /\ (polls >= 1 => spawns = 1)

C8_Witness ==
    outcome = "timed_out" /\ polls >= 5 /\ spawns = 1 /\ pc = "done"

\* C9: once a poll has returned WRONG_ENDPOINT, no further probe and no
\* further sleep happens in the invocation.
C9_WrongEndpointHalts ==
    [][(polls >= 1 /\ status = "WRONG_ENDPOINT") =>
           (polls' = polls /\ sleeps' = sleeps)]_vars

\* C10: no probe is started once the deadline has elapsed, and the
\* supervisor returns at most one sleep interval after the deadline.
C10_DeadlineSlack ==
    /\ (polls >= 1 => probe_at - start < DEADLINE_MS)
    /\ (Returned => returned_at - start <= DEADLINE_MS + SLEEP_MS)

\* C11: every invocation terminates: the wrapper always comes to an end
\* (executor called, exit, or exception); it never polls or waits forever.
C11_Terminates == <>WrapperEnded

\* C12: a DEAD verdict of a poll never ends the loop before the deadline
\* (the loop goes on, or the supervisor returned False at or after the
\* deadline), and a poll that yields HEALTHY makes the supervisor return
\* True.
C12_DeadRetried ==
    /\ (polls >= 1 /\ status = "DEAD") =>
          \/ (started = "pending" /\ pc \in {"sleep", "loop_check", "poll"})
          \/ (outcome = "timed_out" /\ started = "false"
                /\ returned_at - start >= DEADLINE_MS)
    /\ (polls >= 1 /\ status = "HEALTHY") =>
          (started = "true" /\ outcome = "healthy")

C12_Witness ==
    /\ polls >= 2 /\ status = "DEAD"
    /\ pc = "poll" /\ started = "pending"
    /\ now - start < DEADLINE_MS

\* C14: while the socket file of the expected endpoint is missing, no
\* probe yields HEALTHY, the supervisor does not return True and no
\* endpoint is advertised.
C14_NoHealthyWithoutSocketFile ==
    (sockets_file # None /\ ~sock_exists) =>
        /\ status # "HEALTHY"
        /\ started # "true"
        /\ advertised = None

\* C20: with the sub-command unsupported, no project id, telemetry
\* collection disabled or a help request, nothing is probed, killed,
\* deleted or spawned and no endpoint is advertised.
C20_SkipTouchesNothing ==
    (\/ outcome = "unsupported"
     \/ project = ""
     \/ ~should_collect_logs
     \/ help_request) =>
        /\ init_status = "none" /\ polls = 0
        /\ kills = 0 /\ removes = 0 /\ spawns = 0
        /\ advertised = None

\* the PIDs the process-table query of the call yielded, in query order
QueriedPids == query_pids(arg.sys, arg.t)

\* the termination candidates of the call (pids after line 94); a call
\* whose query failed returns before it has any
Candidates ==
    IF arg.sys \in QuerySystems /\ arg.t.rc # 0 THEN <<>>
    ELSE candidate_pids(QueriedPids)

NoDuplicates(seq) ==
    \A i, j \in 1..Len(seq) : seq[i] = seq[j] => i = j

FirstNonZero(seq) ==
    LET nz == {i \in 1..Len(seq) : seq[i] # 0}
    IN  seq[CHOOSE i \in nz : \A j \in nz : i <= j]

KillReturned == pc = "kill_ret" /\ ~ret.raised

C19_TrueIffKilledNeverRaises ==
    pc = "kill_ret" =>
        /\ ~ret.raised
        /\ ret.result <=> (ret.killed # <<>> /\ arg.t.killOk)

\* the probe of the call returned a verdict (it neither raised nor hung)
ProbeReturned == pc = "probe_ret" /\ ret \in Status

\* the endpoint the probe expects, and the one /health/config reported
ExpectedEndpoint ==
    IF arg.sf # None THEN arg.sf ELSE OTLP_DEFAULT_TCP_ENDPOINT

ActualEndpoint == fetch_receiver_endpoint(arg.w).value

\* the verdict by the precedence DEAD > UNHEALTHY > WRONG_ENDPOINT >
\* missing socket file > HEALTHY, the endpoints compared as the code does
PrecedenceVerdict ==
    IF arg.w.reqErr \/ arg.w.code # 200 THEN "DEAD"
    ELSE IF ~arg.w.healthy \/ arg.w.statusStr # "StatusOK" THEN "UNHEALTHY"
    ELSE IF ActualEndpoint # ExpectedEndpoint THEN "WRONG_ENDPOINT"
    ELSE IF arg.sf # None /\ ~arg.exists THEN "MISSING_SOCKET_FILE"
    ELSE "HEALTHY"

\* C13: for every status response, config response and socket-file
\* existence, the verdict the probe returns is the highest-precedence
\* condition that holds, HEALTHY only when none of the four holds.
C13_VerdictPrecedence == ProbeReturned => ret = PrecedenceVerdict

IsSuffix(a, b) ==
    /\ Len(a) <= Len(b)
    /\ SubSeq(b, Len(b) - Len(a) + 1, Len(b)) = a

\* C15: the probe matches the actual endpoint against the expected one
\* (which carries the unix:// scheme) by suffix; WRONG_ENDPOINT is returned
\* exactly when the actual endpoint is no suffix of the expected one.
C15_SuffixMatch ==
    (ProbeReturned /\ ret \in {"WRONG_ENDPOINT", "HEALTHY"}) =>
        (ret = "WRONG_ENDPOINT" <=>
            ~IsSuffix(ActualEndpoint,
                      IF arg.sf # None THEN advertised_endpoint(arg.sf)
                      ELSE OTLP_DEFAULT_TCP_ENDPOINT))

\* the length of the base the resolver derives first
NaturalBase == siso_dir_len(base_dir(arg.plat, arg.env), arg.user)

\* C16: the derived socket path is never longer than 104, whatever the
\* project id, the directory and the user name; the fallback is taken when
\* the natural base leaves less than 1, and its path is within 104 too.
C16_PathWithinLimit ==
    pc = "resolve_ret" =>
        /\ ret.file <= SOCK_PATH_MAX
        /\ ret.folder.fallback <=>
              (SOCK_PATH_MAX - NaturalBase - SOCK_RESERVED < 1)

\* C17: the resolver returns (base, 104 - len(base) - 6), base being the
\* natural one when that leaves at least 1 and else /tmp/{user}/siso, and
\* the socket file name is the prefix of the project id of the allowed
\* length (the whole id when it is shorter) followed by ".sock".
C17_BaseAndPrefix ==
    pc = "resolve_ret" =>
        /\ ret.folder.allowed =
              SOCK_PATH_MAX - ret.folder.path - SOCK_RESERVED
        /\ ret.folder.path =
              IF SOCK_PATH_MAX - NaturalBase - SOCK_RESERVED >= 1
              THEN NaturalBase
              ELSE TMP_LEN + 1 + arg.user + 1 + SISO_LEN
        /\ ret.name = SOCK_EXT_LEN +
              (IF arg.project <= ret.folder.allowed THEN arg.project
               ELSE ret.folder.allowed)

\* C21: when os.remove of the stale socket file fails, the supervisor
\* still goes on to the spawn (and from there to polling).
C21_RemoveFailureStillSpawns ==
    (removes = 1 /\ sock_exists) => (pc = "start_collector" \/ spawns = 1)

\* C29: a socket file that exists when the supervisor is about to spawn
\* is removed then: os.remove is called before the spawn and after any
\* reaping, only for a socket path, never after a HEALTHY first probe.
C29_RemoveBeforeSpawn ==
    [][/\ (pc = "remove_socket" /\ sockets_file # None /\ sock_exists) =>
             removes' = removes + 1
       /\ removes' # removes =>
             /\ pc = "remove_socket" /\ spawns = 0 /\ polls = 0
             /\ sockets_file # None /\ platform # "win32"
             /\ init_status \notin {"none", "HEALTHY"}
             /\ (init_status # "DEAD" => kills = 1 /\ reaped = "true")
       /\ removes >= 1 => kills' = kills
       /\ spawns' # spawns => pc = "start_collector"
       /\ spawns >= 1 => removes' = removes]_vars

C29_Witness ==
    /\ removes = 1 /\ kills = 1 /\ spawns = 1
    /\ ~sock_exists /\ sockets_file # None

\* C30: when creating the sockets folder fails, nothing is probed or
\* spawned, no endpoint is advertised, and the wrapper still goes on to
\* the build executor.
C30_MakedirsFailureDegrades ==
    outcome = "makedirs_failed" =>
        /\ init_status = "none" /\ spawns = 0 /\ advertised = None
        /\ pc \in {"check_outdir", "call_siso", "done", "exit1"}

\* the status request of the call met a connection error (at connect or
\* send: reqErr, at receive: recvErr) or was answered with a non-200 code
StatusRequestFailed ==
    \/ arg.w.reqErr
    \/ (~arg.w.hang /\ (arg.w.recvErr \/ arg.w.code # 200))

\* C26: a connection error of the status request, or a non-200 answer,
\* makes the probe return DEAD; it is not raised.
C26_ConnectionErrorIsDead ==
    (pc = "probe_ret" /\ StatusRequestFailed) => ret = "DEAD"

\* the call got as far as requesting /health/config
ConfigRequested ==
    /\ ~arg.w.reqErr /\ ~arg.w.hang /\ ~arg.w.recvErr
    /\ arg.w.code = 200 /\ arg.w.body = "json"
    /\ arg.w.healthy /\ arg.w.statusStr = "StatusOK"

\* C27: whatever is wrong with the /health/config response (missing key,
\* malformed payload, unexpected shape), the actual endpoint is taken as
\* empty and the probe returns the verdict of the endpoint comparison.
C27_ConfigErrorIsEmptyEndpoint ==
    (pc = "probe_ret" /\ ConfigRequested /\ arg.w.cfg # "ok") =>
        /\ ~fetch_receiver_endpoint(arg.w).raised
        /\ ActualEndpoint = None
        /\ ret = (IF None = ExpectedEndpoint THEN "HEALTHY"
                  ELSE "WRONG_ENDPOINT")

\* the process-table query of the call failed: it could not be run, or it
\* ended with a non-zero return code
QueryFailed ==
    arg.sys \in QuerySystems /\ (arg.t.missing \/ arg.t.rc # 0)

\* C28: when the query fails, or no non-zero PID remains, the reaper
\* returns False and kills nothing.
C28_NothingToKill ==
    (pc = "kill_ret" /\ (QueryFailed \/ Candidates = <<>>)) =>
        /\ ~ret.raised
        /\ ~ret.result
        /\ ret.killed = <<>>

\* the sources of the project id in the order of the claim, each with
\* whether it is set and its value
ProjectSources ==
    << <<Given(arg.args.metrics_project), arg.args.metrics_project>>,
       <<Given(arg.args.project), arg.args.project>>,
       <<arg.env.RBE_metrics_project # Absent, arg.env.RBE_metrics_project>>,
       <<arg.env.SISO_PROJECT # Absent, arg.env.SISO_PROJECT>> >>

FirstSetSource ==
    LET set == {i \in 1..4 : ProjectSources[i][1]}
    IN  IF set = {} THEN ""
        ELSE ProjectSources[CHOOSE i \in set : \A j \in set : i <= j][2]

\* C22: the project id is the value of the first source that is set, in
\* the order --metrics_project, --project, RBE_metrics_project,
\* SISO_PROJECT, and "" when none is; the supervisor is skipped exactly
\* when the project id is empty.
C22_ProjectPrecedence ==
    pc \in {"fetch_ret", "fetch_skipped", "fetch_supervise"} =>
        /\ ret = FirstSetSource
        /\ pc = "fetch_skipped" => ret = ""
        /\ pc = "fetch_supervise" => ret # ""

C22_Witness ==
    /\ pc = "fetch_supervise"
    /\ arg.args.metrics_project = Absent /\ arg.args.project = ""
    /\ arg.env.RBE_metrics_project = "rbe" /\ arg.env.SISO_PROJECT = "sp"
    /\ ret = "rbe"

\* the file system did what it was asked for during the call
OsCallsSucceeded ==
    arg.os.mkstempOk /\ arg.os.closeOk /\ arg.os.replaceOk

\* C24: if the body raises, the target is as it was and no temporary file
\* is left; if the body completes, the target holds what the body wrote
\* (the file system working).
C24_AllOrNothing ==
    (pc = "afw_ret" /\ OsCallsSucceeded) =>
        /\ arg.body.outcome # "completes" =>
              (ret.target = arg.old /\ ret.temp = Absent)
        /\ arg.body.outcome = "completes" => ret.target = arg.body.writes

\* what the last set() of the key that get() was called with was given
LastSet == history[ret.key]

\* C23 as stated: get(k) returns the value of the last set(k, v), on either
\* instance, and None for a key that was never set.
C23_RoundTrip ==
    pc = "cache_got" =>
        ret.value = (IF LastSet.value # Absent THEN LastSet.value
                     ELSE PyNone)

\* every key used so far is a str, every value given to set() is one that
\* JSON gives back unchanged, every set() wrote the cache file, and both
\* instances use one cache file
AllKeysStr == \A k \in PyKeys : history[k].value # Absent => IsStr(k)

AllValuesJson ==
    \A k \in PyKeys :
        history[k].value # Absent =>
            (Serializable(history[k].value)
             /\ json_value(history[k].value) = history[k].value)

AllSetsWrote ==
    \A k \in PyKeys : history[k].value # Absent => history[k].wrote

OneCacheFile == cache_path[1] = cache_path[2]

\* C23 amended: for str keys and values that JSON gives back unchanged,
\* with both instances on one cache file and no cache error (every set()
\* wrote the file, get() had the lock), get(k) returns the value of the
\* last set(k, v) whatever was set on other keys in between, and None for
\* a key never set.
C23_RoundTripWhenStored ==
    (/\ pc = "cache_got" /\ ret.lockOk /\ IsStr(ret.key)
     /\ AllKeysStr /\ AllValuesJson /\ AllSetsWrote /\ OneCacheFile) =>
        ret.value = (IF LastSet.value # Absent THEN LastSet.value
                     ELSE PyNone)

C23_Witness ==
    /\ pc = "cache_got" /\ ret.lockOk /\ ops = 3
    /\ ret.key = "'k'" /\ ret.value = "'v'"
    /\ history["'k'"].wrote /\ history["'1'"].wrote
    /\ history["1"].value = Absent
    /\ AllValuesJson /\ OneCacheFile

\* no instance has a cache file that holds a JSON object
NoJsonFile == \A i \in Instances : files[cache_path[i]].state # "json"

\* the keys a cache file holds
KeysOf(f) == {k \in JsonKeys : f.data[k] # Absent}

\* the keys set() was called with, as JSON stores them
KeysSet == {json_key(k) : k \in {x \in PyKeys : history[x].value # Absent}}

C33_SpawnedCollectorIsHealthy ==
    (/\ ProbeReturned
     /\ arg.sf # None
     /\ ret \in {"WRONG_ENDPOINT", "HEALTHY"}
     /\ ActualEndpoint = collector_address(arg.sf)) => ret = "HEALTHY"

\* C34: the spawn is never called while a process is bound to the health
\* port: a listener met by the initial probe has been killed by the reaper
\* before the spawn.
C34_ListenerReapedBeforeSpawn ==
    (spawns >= 1 /\ listener = "yes") => (kills = 1 /\ reaped = "true")

\* C34 as amended: a listener the initial probe classified UNHEALTHY or
\* WRONG_ENDPOINT has been reaped (the reaper ran once and returned True)
\* before the spawn; after a DEAD verdict, which a listener answering with
\* a status other than 200 gets too, the spawn follows without the reaper.
C34_ClassifiedListenerReaped ==
    /\ (spawns >= 1 /\ init_status \in {"UNHEALTHY", "WRONG_ENDPOINT"}) =>
           (listener = "yes" /\ kills = 1 /\ reaped = "true")
    /\ (spawns >= 1 /\ init_status = "DEAD") =>
           (kills = 0 /\ reaped = "none")

C34_Witness ==
    /\ spawns = 1 /\ listener = "yes" /\ reaped = "true"
    /\ init_status = "WRONG_ENDPOINT" /\ pc = "done"

\* C35: once the spawn has been called, _start_collector does not return
\* before it has polled the health endpoint at least once, whatever time
\* the initial probe, the reaper and the socket cleanup took.
C35_PolledAfterSpawn == (Returned /\ spawns >= 1) => polls >= 1

\* C37: when the wrapper exits with status 1 on the Ninja state file, the
\* supervisor has not probed, reaped or spawned anything.
C37_Exit1TouchesNothing ==
    pc = "exit1" => (init_status = "none" /\ kills = 0 /\ spawns = 0)

\* a --collector_address=... argument
IsCollectorAddress(a) == a[1] = "--collector_address="

\* C39: after a failed supervision the argument list handed to the build
\* executor contains --enable_collector=false, no bare -enable_collector or
\* --enable_collector and no --collector_address argument, for every
\* argument list that enabled the collector.
C39_FailureDisablesCollector ==
    (pc = "args_ret" /\ ~arg.started) =>
        /\ Contains(ret, DisableFlag)
        /\ ~Contains(ret, DashFlag)
        /\ ~Contains(ret, DashDashFlag)
        /\ \A i \in 1..Len(ret) : ~IsCollectorAddress(ret[i])

\* both set() calls are over and both had the lock
BothSetsLocked ==
    \A p \in Setters : procs[p].pc = "done" /\ procs[p].locked

C36_CleanupSparesLiveSocket ==
    [][(collectors.sock.exists /\ ~collectors'.sock.exists) =>
          \/ collectors.sock.owner = 0
          \/ collectors.state[collectors.sock.owner] # "serving"]_vars

\* -------------------------------------------------------- type invariant
TypeOK ==
    /\ pc \in {"handle_collector_args", "is_subcommand_present",
               "initial_probe", "kill_collector", "remove_socket",
               "start_collector", "loop_check", "poll", "sleep",
               "handle_result", "check_outdir", "call_siso", "done", "exit1",
               "crashed", "blocked", "argparse_exit"}
    /\ status \in Status \cup {"none", "RAISE", "BLOCK"}
    /\ init_status \in Status \cup {"none", "RAISE", "BLOCK"}
    /\ reaped \in {"none", "true", "false"}
    /\ outcome \in SupervisionFailures \cup
                     {"none", "skipped", "healthy", "raised", "argparse_exit",
                      "makedirs_failed"}
    /\ started \in {"pending", "true", "false"}
    /\ spawns \in Nat /\ kills \in Nat /\ polls \in Nat /\ sleeps \in Nat
    /\ listener \in {"none", "yes", "no"}

====
